---------------------------- MODULE Spec2Model ----------------------------
(***************************************************************************)
(* Model of the NavFn grid planner (navfn/src/navfn.cpp): set-up of the    *)
(* cost and potential grids, the bucketed wavefront propagation (Dijkstra  *)
(* and A* variants) and the path tracer.                                   *)
(*                                                                         *)
(* Numbers.  The program computes in single-precision floats.  The model   *)
(* is fixed point: a potential is an integer count of 1/PotScale cost      *)
(* units, a sub-cell offset or a gradient component an integer count of    *)
(* 1/OffScale cells.  POT_HIGH is the "not reached" sentinel: adding a     *)
(* cost to it leaves it unchanged, as the float 1.0e10 absorbs any addend  *)
(* below half its unit in the last place (512).                            *)
(***************************************************************************)
EXTENDS Integers, Sequences, FiniteSets, TLC

\* ------------------------------------------------------------ bounds
NX == 5
NY == 5
MaxSpecial == 1
PRIORITYBUFSIZE == 3
ShortPath == 4
ShortCycles == 2
LowPot == 1000
NearGap == 200
FarGap == 1000
ValueStride == 1

\* ------------------------------------------------------------ constants
COST_NEUTRAL == 50
COST_OBS == 254
COST_HIGH == COST_OBS - 1
COST_OBS_ROS == 253
COST_UNKNOWN_ROS == 255
COST_FACTOR_NUM == 8
COST_FACTOR_DEN == 10
PotScale == 10
OffScale == 1000
POT_HIGH == 100000000
INT_MIN_POT == -1
INT_MAX_POT == 99999999

nx == NX
ny == NY
ns == nx * ny
priInc == 2 * COST_NEUTRAL * PotScale
pathStep == OffScale \div 2

Cells == 0 .. (ns - 1)
Cell(x, y) == y * nx + x
CellX(k) == k % nx
CellY(k) == k \div nx
IsBorder(k) == CellX(k) = 0 \/ CellX(k) = nx - 1 \/ CellY(k) = 0 \/ CellY(k) = ny - 1
Interior == {k \in Cells : ~IsBorder(k)}
Coords == (0 .. (nx - 1)) \X (0 .. (ny - 1))

\* ------------------------------------------------------------ evaluation
\* F(v), with v evaluated once before F is applied
Bind(v, F(_)) == CHOOSE r \in {F(x) : x \in {v}} : TRUE

\* ------------------------------------------------------------ arithmetic
Abs(a) == IF a < 0 THEN -a ELSE a
Min2(a, b) == IF a < b THEN a ELSE b
Max2(a, b) == IF a > b THEN a ELSE b

\* division of floats, rounded toward zero in the fixed-point unit
Quot(a, b) == IF a >= 0 THEN a \div b ELSE -((-a) \div b)

RECURSIVE SqrtSearch(_, _, _)
SqrtSearch(v, lo, hi) ==
    IF lo >= hi THEN lo
    ELSE LET mid == (lo + hi + 1) \div 2
         IN  IF mid * mid <= v THEN SqrtSearch(v, mid, hi)
             ELSE SqrtSearch(v, lo, mid - 1)

\* floor of the square root
ISqrt(v) == SqrtSearch(v, 0, 46340)

\* hypot(a, b), in the unit of a and b
Hypot(a, b) == ISqrt(a * a + b * b)

\* float addition to a potential: POT_HIGH absorbs the addend
FAdd(p, c) == IF p >= POT_HIGH THEN POT_HIGH ELSE p + c

\* round(): half away from zero, of an offset in 1/OffScale, to an integer
Round(d) == IF d >= 0 THEN (d + OffScale \div 2) \div OffScale
            ELSE -((-d + OffScale \div 2) \div OffScale)

VARIABLES
    setCostmap_args,  \* arguments of the last setCostmap: [cmap, isROS, allow_unknown]
    costarr,          \* cost grid, Cells -> 0..255
    goal, start,      \* <<x, y>> grid cells
    planner,          \* "dijkstra" or "astar": the planning entry point called
    atStart,          \* argument of calcNavFnDijkstra
    potarr,           \* potential grid, in 1/PotScale
    pending,          \* pending flags
    curP, nextP, overP, \* priority buffers: the cells at [0, count)
    curT,             \* priority threshold, in 1/PotScale
    gradx, grady,     \* gradient grids, in 1/OffScale
    pathx, pathy,     \* path points written by this calcPath, in 1/OffScale
    npath,            \* stored path length (getPathLen)
    stc, dx, dy,      \* path tracer: current cell and sub-cell offset
    cycles,           \* argument cycles of propNavFnDijkstra / propNavFnAstar
    cycle,            \* loop counter of the propagator / of calcPath
    calcPath_n,       \* argument n of calcPath: the most cycles it runs
    last_path_cost,   \* last_path_cost_
    propRet,          \* return value of propNavFn*: "none", TRUE or FALSE
    pathRet,          \* return value of calcPath, -1 before it returns
    writes,           \* potarr writes of the last pass: <<cell, old, new>>
    dropped,          \* a push since setupNavFn found its buffer full
    prev_pot,         \* potarr as the previous planning call left it, NoPot if none
    oob,              \* calcPath read potarr outside [0, ns)
    pc                \* position in calcNavFnDijkstra / calcNavFnAstar

vars == <<setCostmap_args, costarr, goal, start, planner, atStart, potarr, pending, curP, nextP,
          overP, curT, gradx, grady, pathx, pathy, npath, stc, dx, dy,
          cycles, cycle, calcPath_n, last_path_cost, propRet, pathRet, writes,
          dropped, prev_pot, oob, pc>>

\* ------------------------------------------------------------ priority buffers
\* The propagation state handed through the update rule.
PropState == [pot |-> potarr, pending |-> pending, cur |-> curP, next |-> nextP,
              over |-> overP, writes |-> << >>, dropped |-> dropped]

\* mutant: the admission test without the capacity check
Admit_NoCapacity(q, buf, n) ==
    /\ n >= 0
    /\ n < ns
    /\ ~q.pending[n]
    /\ costarr[n] < COST_OBS

\* mutant: the admission test without the cost check
Admit_NoCostTest(q, buf, n) ==
    /\ n >= 0
    /\ n < ns
    /\ ~q.pending[n]
    /\ Len(buf) < PRIORITYBUFSIZE

Admit(q, buf, n) ==
    /\ n >= 0
    /\ n < ns
    /\ ~q.pending[n]
    /\ costarr[n] < COST_OBS
    /\ Len(buf) < PRIORITYBUFSIZE

Push(q, which, n) ==
    IF which = "cur" THEN [q EXCEPT !.cur = Append(@, n), !.pending[n] = TRUE]
    ELSE IF which = "next" THEN [q EXCEPT !.next = Append(@, n), !.pending[n] = TRUE]
    ELSE [q EXCEPT !.over = Append(@, n), !.pending[n] = TRUE]

\* the push of n is refused, with the buffer's capacity as the test that fails
Refuse(q, buf, n) ==
    IF n >= 0 /\ n < ns /\ ~q.pending[n] /\ costarr[n] < COST_OBS
       /\ ~(Len(buf) < PRIORITYBUFSIZE)
    THEN [q EXCEPT !.dropped = TRUE]
    ELSE q

push_cur(q0, n) ==
    Bind(q0, LAMBDA q : IF Admit(q, q.cur, n) THEN Push(q, "cur", n)
                        ELSE Refuse(q, q.cur, n))

push_next(q0, n) ==
    Bind(q0, LAMBDA q : IF Admit(q, q.next, n) THEN Push(q, "next", n)
                        ELSE Refuse(q, q.next, n))

push_over(q0, n) ==
    Bind(q0, LAMBDA q : IF Admit(q, q.over, n) THEN Push(q, "over", n)
                        ELSE Refuse(q, q.over, n))

\* ------------------------------------------------------------ update rule
\* INVSQRT2 * cost, in 1/PotScale
EdgeCost(m) == (70711 * costarr[m] * PotScale) \div 100000

\* hf * (-0.2301*d*d + 0.5307*d + 0.7040) with d = dc/hf, in 1/PotScale;
\* hf and dc in 1/PotScale, 0 <= dc < hf
Quadratic(hf, dc) ==
    Bind((dc * 1000) \div hf, LAMBDA d :
        (hf * ((7040000 + 5307 * d - (((2301 * d) \div 10) * d) \div 100) \div 1000))
            \div 10000)

\* the planar-wave update from ta, the lowest neighbour, and dc, its distance
\* to the lowest neighbour on the other axis
WaveUpdate(hf, ta, dc) ==
    IF dc >= hf THEN FAdd(ta, hf) ELSE FAdd(ta, Quadratic(hf, dc))

\* float subtraction tc - ta of two potentials
FSub(tc, ta) == IF tc >= POT_HIGH /\ ta >= POT_HIGH THEN 0 ELSE tc - ta

\* mutant: the left neighbour is taken for the lowest of left and right
PlanarWave_TakesLeft(c, l, r, u, d) ==
    Bind(<<l, IF u < d THEN u ELSE d>>, LAMBDA t :
        IF FSub(t[1], t[2]) < 0
        THEN WaveUpdate(c * PotScale, t[1], -FSub(t[1], t[2]))
        ELSE WaveUpdate(c * PotScale, t[2], FSub(t[1], t[2])))

\* the new potential of a cell of cost c from its four neighbours' potentials
PlanarWave(c, l, r, u, d) ==
    Bind(<<IF l < r THEN l ELSE r, IF u < d THEN u ELSE d>>, LAMBDA t :
        IF FSub(t[1], t[2]) < 0
        THEN WaveUpdate(c * PotScale, t[1], -FSub(t[1], t[2]))
        ELSE WaveUpdate(c * PotScale, t[2], FSub(t[1], t[2])))

\* if (v > p + e) push m, onto nextP when low, else onto overP
PushOne(q, m, v, p, low) ==
    IF v > FAdd(p, EdgeCost(m))
    THEN (IF low THEN push_next(q, m) ELSE push_over(q, m))
    ELSE q

\* the four neighbours of n in the order l, r, u, d
PushNeighbours(q, n, p, l, r, u, d, low) ==
    PushOne(PushOne(PushOne(PushOne(q, n - 1, l, p, low), n + 1, r, p, low),
                    n - nx, u, p, low), n + nx, d, p, low)

CommitPot(q, n, pot) ==
    [q EXCEPT !.pot[n] = pot, !.writes = Append(@, <<n, q.pot[n], pot>>)]

\* mutant: the upper neighbour is read one cell to the right
updateCell_DiagonalRead(q0, T, n) ==
    Bind(q0, LAMBDA q :
      IF costarr[n] < COST_OBS
      THEN Bind(PlanarWave(costarr[n], q.pot[n - 1], q.pot[n + 1], q.pot[n - nx + 1],
                           q.pot[n + nx]), LAMBDA pot :
             IF pot < q.pot[n]
             THEN PushNeighbours(CommitPot(q, n, pot), n, pot, q.pot[n - 1],
                                 q.pot[n + 1], q.pot[n - nx + 1], q.pot[n + nx], pot < T)
             ELSE q)
      ELSE q)

updateCell(q0, T, n) ==
    Bind(q0, LAMBDA q :
      IF costarr[n] < COST_OBS
      THEN Bind(PlanarWave(costarr[n], q.pot[n - 1], q.pot[n + 1], q.pot[n - nx],
                           q.pot[n + nx]), LAMBDA pot :
             IF pot < q.pot[n]
             THEN PushNeighbours(CommitPot(q, n, pot), n, pot, q.pot[n - 1],
                                 q.pot[n + 1], q.pot[n - nx], q.pot[n + nx], pot < T)
             ELSE q)
      ELSE q)

\* hypot(x-start[0], y-start[1]) * COST_NEUTRAL, in 1/PotScale
Heuristic(x, y) ==
    Hypot((x - start[1]) * PotScale, (y - start[2]) * PotScale) * COST_NEUTRAL

\* mutant: the new potential is stored without comparing it to the old one
updateCellAstar_NoCompare(q0, T, n) ==
    Bind(q0, LAMBDA q :
      IF costarr[n] < COST_OBS
      THEN Bind(PlanarWave(costarr[n], q.pot[n - 1], q.pot[n + 1], q.pot[n - nx],
                           q.pot[n + nx]), LAMBDA pot :
             Bind(FAdd(pot, Heuristic(n % nx, n \div nx)), LAMBDA pf :
                PushNeighbours(CommitPot(q, n, pot), n, pf, q.pot[n - 1],
                               q.pot[n + 1], q.pot[n - nx], q.pot[n + nx], pf < T)))
      ELSE q)

updateCellAstar(q0, T, n) ==
    Bind(q0, LAMBDA q :
      IF costarr[n] < COST_OBS
      THEN Bind(PlanarWave(costarr[n], q.pot[n - 1], q.pot[n + 1], q.pot[n - nx],
                           q.pot[n + nx]), LAMBDA pot :
             IF pot < q.pot[n]
             THEN Bind(FAdd(pot, Heuristic(n % nx, n \div nx)), LAMBDA pf :
                    PushNeighbours(CommitPot(q, n, pot), n, pf, q.pot[n - 1],
                                   q.pot[n + 1], q.pot[n - nx], q.pot[n + nx], pf < T))
             ELSE q)
      ELSE q)

\* ------------------------------------------------------------ set-up
\* the costmaps handed to the planner: free space, with at most MaxSpecial
\* interior cells that are an obstacle or nearly one
SpecialCosts == {COST_HIGH, COST_OBS}
SpecialSets == {S \in SUBSET Interior : Cardinality(S) <= MaxSpecial}
FewSpecialMaps ==
    {[k \in Cells |-> IF k \in S THEN a[k] ELSE COST_NEUTRAL] :
        <<S, a>> \in UNION {{<<S1, a1>> : a1 \in [S1 -> SpecialCosts]} : S1 \in SpecialSets}}

\* free space with a ring of obstacles around the interior cell c
RingCentres == {Cell(1, 1)}
RingMap(c) ==
    [k \in Cells |->
        IF k # c /\ Abs(CellX(k) - CellX(c)) <= 1 /\ Abs(CellY(k) - CellY(c)) <= 1
        THEN COST_OBS ELSE COST_NEUTRAL]

CostMaps == FewSpecialMaps \cup {RingMap(c) : c \in RingCentres}

\* the cycles handed to the propagators by the planning entry points
PlanCycles == Max2((nx * ny) \div 20, nx + ny)

\* no planning call has run yet
NoPot == [k \in Cells |-> -1]

\* the arguments that give the plain map of free space
PlainArgs == [cmap |-> [k \in Cells |-> 0], isROS |-> TRUE, allow_unknown |-> TRUE]

\* the planner's state after construction and setNavArr
Constructed ==
    /\ setCostmap_args = PlainArgs
    /\ potarr = [k \in Cells |-> 0]
    /\ pending = [k \in Cells |-> FALSE]
    /\ curP = << >> /\ nextP = << >> /\ overP = << >>
    /\ curT = 0
    /\ gradx = [k \in Cells |-> 0]
    /\ grady = [k \in Cells |-> 0]
    /\ pathx = << >> /\ pathy = << >>
    /\ npath = 0
    /\ stc = 0 /\ dx = 0 /\ dy = 0
    /\ cycle = 0
    /\ calcPath_n = 0
    /\ last_path_cost = 0
    /\ propRet = "none"
    /\ pathRet = -1
    /\ writes = << >>
    /\ dropped = FALSE
    /\ prev_pot = NoPot
    /\ oob = FALSE
    /\ pc = "start"

\* one planning call through calcNavFnDijkstra(atStart) / calcNavFnAstar()
Init ==
    /\ costarr \in CostMaps
    /\ goal \in Coords
    /\ start \in Coords
    /\ planner \in {"dijkstra", "astar"}
    /\ atStart \in BOOLEAN
    /\ (planner = "astar" => atStart)
    /\ cycles = PlanCycles
    /\ Constructed

\* mutant: the last column is left as it is
SealBorder_MissesLastColumn(c) ==
    [k \in Cells |-> IF IsBorder(k) /\ CellX(k) # nx - 1 THEN COST_OBS ELSE c[k]]

\* outer bounds of the cost array set to COST_OBS
SealBorder(c) == [k \in Cells |-> IF IsBorder(k) THEN COST_OBS ELSE c[k]]

\* mutant: the threshold is left as the last call left it
InitialThreshold_Stale == curT

\* curT = COST_OBS
InitialThreshold == COST_OBS * PotScale

\* the propagation arrays and priority buffers as setupNavFn resets them
ResetState == [pot |-> [k \in Cells |-> POT_HIGH],
               pending |-> [k \in Cells |-> FALSE],
               cur |-> << >>, next |-> << >>, over |-> << >>, writes |-> << >>,
               dropped |-> FALSE]

\* initCost(k, v), on the state q
initCost(q, k, v) ==
    push_cur(push_cur(push_cur(push_cur([q EXCEPT !.pot[k] = v], k + 1), k - 1),
                      k - nx), k + nx)

GoalCell == goal[1] + goal[2] * nx
StartCell == start[2] * nx + start[1]

\* the body of setupNavFn(true)
SetupArrays ==
    /\ UNCHANGED <<goal, start, planner, atStart, pathx, pathy, npath,
                   stc, dx, dy, cycle, calcPath_n, cycles, setCostmap_args, last_path_cost, propRet,
                   pathRet, oob>>
    /\ costarr' = SealBorder(costarr)
    /\ \E q1 \in {initCost(ResetState, GoalCell, 0)'} :
           /\ potarr' = q1.pot
           /\ pending' = q1.pending
           /\ curP' = q1.cur
           /\ nextP' = q1.next
           /\ overP' = q1.over
           /\ dropped' = q1.dropped
    /\ curT' = InitialThreshold
    /\ gradx' = [k \in Cells |-> 0]
    /\ grady' = [k \in Cells |-> 0]
    /\ writes' = << >>
    /\ pc' = "setup"

\* setupNavFn(true), first thing in calcNavFnDijkstra / calcNavFnAstar
setupNavFn ==
    /\ pc = "start"
    /\ SetupArrays
    /\ UNCHANGED prev_pot

\* the planning call is made once more on the same cost grid, goal and start:
\* setupNavFn(true) on whatever the first call left behind
Replan ==
    /\ pc = "done"
    /\ prev_pot = NoPot
    /\ SetupArrays
    /\ prev_pot' = potarr

\* ------------------------------------------------------------ propagation

\* entry of propNavFnDijkstra / propNavFnAstar, up to the main loop
PropBegin ==
    /\ pc = "setup"
    /\ cycle' = 0
    /\ curT' = IF planner = "astar"
               THEN Hypot((goal[1] - start[1]) * PotScale,
                          (goal[2] - start[2]) * PotScale) * COST_NEUTRAL + curT
               ELSE curT
    /\ pc' = "loop"
    /\ UNCHANGED <<costarr, goal, start, planner, atStart, potarr, pending, curP,
                   nextP, overP, gradx, grady, pathx, pathy, npath,
                   stc, dx, dy, calcPath_n, cycles, setCostmap_args, prev_pot, last_path_cost, propRet, pathRet,
                   writes, dropped, oob>>

\* mutant: the pending flags of the current buffer are not reset
ClearPending_Skip(q, buf) == q

\* reset pending flags on the current priority buffer
ClearPending(q, buf) ==
    [q EXCEPT !.pending = [k \in Cells |->
        IF \E i \in 1 .. Len(buf) : buf[i] = k THEN FALSE ELSE q.pending[k]]]

\* process the cells of buf in order with the planner's update rule
RECURSIVE ProcessBuffer(_, _, _, _)
ProcessBuffer(q0, T, buf, astar) ==
    Bind(q0, LAMBDA q :
      IF buf = << >> THEN q
      ELSE ProcessBuffer(IF astar THEN updateCellAstar(q, T, Head(buf))
                         ELSE updateCell(q, T, Head(buf)),
                         T, Tail(buf), astar))

\* mutant: the overflow block is emptied, not promoted
SwapBuffers_DiscardsOverflow(q0, T) ==
    Bind(q0, LAMBDA q :
    IF q.next = << >>
    THEN [pot |-> q.pot, pending |-> q.pending, cur |-> << >>, next |-> << >>,
          over |-> << >>, curT |-> T + priInc, writes |-> q.writes,
          dropped |-> q.dropped]
    ELSE [pot |-> q.pot, pending |-> q.pending, cur |-> q.next, next |-> << >>,
          over |-> q.over, curT |-> T, writes |-> q.writes,
          dropped |-> q.dropped])

\* mutant: the overflow block is promoted without raising the threshold
SwapBuffers_KeepsThreshold(q0, T) ==
    Bind(q0, LAMBDA q :
    IF q.next = << >>
    THEN [pot |-> q.pot, pending |-> q.pending, cur |-> q.over, next |-> << >>,
          over |-> << >>, curT |-> T, writes |-> q.writes,
          dropped |-> q.dropped]
    ELSE [pot |-> q.pot, pending |-> q.pending, cur |-> q.next, next |-> << >>,
          over |-> q.over, curT |-> T, writes |-> q.writes,
          dropped |-> q.dropped])

\* one iteration of the main loop up to the buffer swap: the state after it
\* as a record with the threshold
SwapBuffers(q0, T) ==
    Bind(q0, LAMBDA q :
    IF q.next = << >>
    THEN [pot |-> q.pot, pending |-> q.pending, cur |-> q.over, next |-> << >>,
          over |-> << >>, curT |-> T + priInc, writes |-> q.writes,
          dropped |-> q.dropped]
    ELSE [pot |-> q.pot, pending |-> q.pending, cur |-> q.next, next |-> << >>,
          over |-> q.over, curT |-> T, writes |-> q.writes,
          dropped |-> q.dropped])

Pass(q, T, order, astar) ==
    SwapBuffers(ProcessBuffer(ClearPending(q, q.cur), T, order, astar), T)

\* the check for the start cell that ends the loop
HitStart(pot) ==
    IF planner = "astar" THEN pot[StartCell] < POT_HIGH
    ELSE atStart /\ pot[StartCell] < POT_HIGH

\* mutant: both propagators return whether the loop was left early
PropReturn_CycleTest(pot, c) == c < cycles

\* the propagator's return value when it leaves the loop with counter c
PropReturn(pot, c) ==
    IF planner = "astar" THEN pot[StartCell] < POT_HIGH ELSE c < cycles

PropPass ==
    /\ pc = "loop"
    /\ cycle < cycles
    /\ ~(Len(curP) = 0 /\ Len(nextP) = 0)
    /\ \E r \in {Pass(PropState, curT, curP, planner = "astar")} :
           /\ potarr' = r.pot
           /\ pending' = r.pending
           /\ curP' = r.cur
           /\ nextP' = r.next
           /\ overP' = r.over
           /\ curT' = r.curT
           /\ writes' = r.writes
           /\ dropped' = r.dropped
           /\ IF HitStart(r.pot)
              THEN /\ cycle' = cycle
                   /\ propRet' = PropReturn(r.pot, cycle)
                   /\ last_path_cost' = IF planner = "astar" THEN r.pot[StartCell]
                                        ELSE last_path_cost
                   /\ pc' = "propagated"
              ELSE /\ cycle' = cycle + 1
                   /\ UNCHANGED <<propRet, last_path_cost, pc>>
    /\ UNCHANGED <<costarr, goal, start, planner, atStart, gradx, grady, pathx,
                   pathy, npath, stc, dx, dy, calcPath_n, cycles, setCostmap_args, prev_pot, pathRet, oob>>

\* the loop ends on its own: out of cycles, or the priority blocks are empty
PropExit ==
    /\ pc = "loop"
    /\ cycle >= cycles \/ (Len(curP) = 0 /\ Len(nextP) = 0)
    /\ propRet' = PropReturn(potarr, cycle)
    /\ last_path_cost' = IF planner = "astar" THEN potarr[StartCell] ELSE last_path_cost
    /\ pc' = "propagated"
    /\ UNCHANGED <<costarr, goal, start, planner, atStart, potarr, pending, curP,
                   nextP, overP, curT, gradx, grady, pathx, pathy, npath,
                   stc, dx, dy, cycle, calcPath_n, cycles, setCostmap_args, prev_pot, pathRet, writes, dropped, oob>>

\* ------------------------------------------------------------ gradient
\* gradCell(n) on the gradient grids g = [x, y]: the grids after the call
gradCell(g, n) ==
    IF g.x[n] + g.y[n] > 0 THEN g
    ELSE IF n < nx \/ n > ns - nx THEN g
    ELSE Bind(
        IF potarr[n] >= POT_HIGH
        THEN <<IF potarr[n - 1] < POT_HIGH THEN -COST_OBS * PotScale
               ELSE IF potarr[n + 1] < POT_HIGH THEN COST_OBS * PotScale ELSE 0,
               IF potarr[n - nx] < POT_HIGH THEN -COST_OBS * PotScale
               ELSE IF potarr[nx + 1] < POT_HIGH THEN COST_OBS * PotScale ELSE 0>>
        ELSE <<(IF potarr[n - 1] < POT_HIGH THEN potarr[n - 1] - potarr[n] ELSE 0)
               + (IF potarr[n + 1] < POT_HIGH THEN potarr[n] - potarr[n + 1] ELSE 0),
               (IF potarr[n - nx] < POT_HIGH THEN potarr[n - nx] - potarr[n] ELSE 0)
               + (IF potarr[n + nx] < POT_HIGH THEN potarr[n] - potarr[n + nx] ELSE 0)>>,
        LAMBDA dd : Bind(Hypot(dd[1], dd[2]), LAMBDA norm :
            IF norm > 0
            THEN [x |-> [g.x EXCEPT ![n] = Quot(dd[1] * OffScale, norm)],
                  y |-> [g.y EXCEPT ![n] = Quot(dd[2] * OffScale, norm)]]
            ELSE g))

\* (1-t)*a + t*b for an offset t and gradient components a, b
Lerp(t, a, b) == Quot((OffScale - t) * a + t * b, OffScale)

\* the gradient interpolated at offset (ox, oy) in the cell square at c
InterpGrad(g, c, ox, oy) ==
    <<Lerp(oy, Lerp(ox, g.x[c], g.x[c + 1]), Lerp(ox, g.x[c + nx], g.x[c + nx + 1])),
      Lerp(oy, Lerp(ox, g.y[c], g.y[c + 1]), Lerp(ox, g.y[c + nx], g.y[c + nx + 1]))>>

\* ------------------------------------------------------------ path tracer
\* the n handed to calcPath by the planning entry points
PathMax == IF planner = "astar" THEN nx * 4 ELSE (nx * ny) \div 2

\* the n calcPath is called with: by the planning entry points, or directly
\* with a small n
PathLens == {ShortPath, PathMax}

\* potarr read at index k; outside the array the value is garbage[k]
OobIndex == {-1, ns, ns + 1}
OobValues == {0, POT_HIGH}
ReadPot(k, garbage) == IF k \in Cells THEN potarr[k] ELSE garbage[k]

\* a float potential converted to int, back in 1/PotScale; a value beyond the
\* range of int converts to either end of the range, as the build decides
ToInt(p, big) == IF p >= POT_HIGH THEN big ELSE (p \div PotScale) * PotScale

nearest_point(c, ox, oy) == Max2(0, Min2(nx * ny - 1, c + Round(ox) + nx * Round(oy)))

\* the eight neighbours of c in the order calcPath compares them
EightNeighbours(c) ==
    <<c - nx - 1, c - nx, c - nx + 1, c - 1, c + 1, c + nx - 1, c + nx, c + nx + 1>>

\* the scan for the lowest neighbour: m = <<minc, minp>> after the cells of nb
RECURSIVE MinScan(_, _, _)
MinScan(m0, nb, garbage) ==
    Bind(m0, LAMBDA m :
      IF nb = << >> THEN m
      ELSE MinScan(IF ReadPot(Head(nb), garbage) < m[2]
                   THEN <<Head(nb), ToInt(ReadPot(Head(nb), garbage), m[2])>>
                   ELSE m,
                   Tail(nb), garbage))

\* one of stc and its eight neighbours is at POT_HIGH (the tests short-circuit)
NearHigh(c) ==
    \/ potarr[c] >= POT_HIGH
    \/ \E k \in {c + 1, c - 1, c + nx, c + nx + 1, c + nx - 1, c - nx, c - nx + 1,
                 c - nx - 1} : potarr[k] >= POT_HIGH

CalcPathBegin ==
    /\ pc = "propagated"
    /\ stc' = StartCell
    /\ dx' = 0
    /\ dy' = 0
    /\ npath' = 0
    /\ pathx' = << >>
    /\ pathy' = << >>
    /\ cycle' = 0
    /\ calcPath_n' \in PathLens
    /\ pc' = "path"
    /\ UNCHANGED <<costarr, goal, start, planner, atStart, potarr, pending, curP,
                   nextP, overP, curT, gradx, grady, last_path_cost, propRet,
                   pathRet, writes, dropped, oob, cycles, setCostmap_args, prev_pot>>

\* mutant: the near-goal exit adds the current cell, not the goal
NearGoal_AppendsCell ==
    /\ potarr[nearest_point(stc, dx, dy)] < COST_NEUTRAL * PotScale
    /\ pathx' = Append(pathx, CellX(stc) * OffScale + dx)
    /\ pathy' = Append(pathy, CellY(stc) * OffScale + dy)
    /\ npath' = npath + 1
    /\ pathRet' = npath + 1
    /\ pc' = "done"
    /\ UNCHANGED <<stc, dx, dy, gradx, grady, cycle, oob>>

\* exit of the loop body through the near-goal check
NearGoal ==
    /\ potarr[nearest_point(stc, dx, dy)] < COST_NEUTRAL * PotScale
    /\ pathx' = Append(pathx, goal[1] * OffScale)
    /\ pathy' = Append(pathy, goal[2] * OffScale)
    /\ npath' = npath + 1
    /\ pathRet' = npath + 1
    /\ pc' = "done"
    /\ UNCHANGED <<stc, dx, dy, gradx, grady, cycle, oob>>

\* mutant: the bounds check comes before the near-goal check
OutOfBounds_First ==
    /\ stc < nx \/ stc > ns - nx
    /\ pathRet' = 0
    /\ pc' = "done"
    /\ UNCHANGED <<stc, dx, dy, gradx, grady, pathx, pathy, npath, cycle, oob>>

\* exit through the bounds check
OutOfBounds ==
    /\ ~(potarr[nearest_point(stc, dx, dy)] < COST_NEUTRAL * PotScale)
    /\ stc < nx \/ stc > ns - nx
    /\ pathRet' = 0
    /\ pc' = "done"
    /\ UNCHANGED <<stc, dx, dy, gradx, grady, pathx, pathy, npath, cycle, oob>>

\* the point added to the path
AddPoint ==
    /\ pathx' = Append(pathx, CellX(stc) * OffScale + dx)
    /\ pathy' = Append(pathy, CellY(stc) * OffScale + dy)
    /\ npath' = npath + 1

oscillation_detected ==
    /\ npath' > 2
    /\ pathx'[npath'] = pathx'[npath' - 2]
    /\ pathy'[npath'] = pathy'[npath' - 2]

\* the potential field boundary: follow the grid to the lowest neighbour
FollowGrid ==
    /\ \E garbage \in [{k \in OobIndex : \E i \in 1 .. 8 : EightNeighbours(stc)[i] = k}
                           -> OobValues],
          big \in (IF potarr[stc] >= POT_HIGH THEN {INT_MIN_POT, INT_MAX_POT} ELSE {0}) :
         \E m \in {MinScan(<<stc, ToInt(potarr[stc], big)>>, EightNeighbours(stc), garbage)} :
            /\ stc' = m[1]
            /\ oob' = (oob \/ DOMAIN garbage # {})
            /\ IF ReadPot(m[1], garbage) >= POT_HIGH
               THEN pathRet' = 0 /\ pc' = "done" /\ cycle' = cycle
               ELSE pathRet' = pathRet /\ pc' = pc /\ cycle' = cycle + 1
    /\ dx' = 0
    /\ dy' = 0
    /\ UNCHANGED <<gradx, grady>>

\* a good gradient: step pathStep along the interpolated gradient
FollowGradient ==
    \E g \in {gradCell(gradCell(gradCell(gradCell([x |-> gradx, y |-> grady], stc),
                                         stc + 1), stc + nx), stc + nx + 1)} :
      /\ gradx' = g.x
      /\ grady' = g.y
      /\ \E v \in {InterpGrad(g, stc, dx, dy)} :
           IF v[1] = 0 /\ v[2] = 0
           THEN /\ pathRet' = 0
                /\ pc' = "done"
                /\ UNCHANGED <<stc, dx, dy, cycle, oob>>
           ELSE \E o \in {<<dx + Quot(v[1] * pathStep, Hypot(v[1], v[2])),
                            dy + Quot(v[2] * pathStep, Hypot(v[1], v[2]))>>} :
                  /\ dx' = (IF o[1] > OffScale THEN o[1] - OffScale
                            ELSE IF o[1] < -OffScale THEN o[1] + OffScale ELSE o[1])
                  /\ dy' = (IF o[2] > OffScale THEN o[2] - OffScale
                            ELSE IF o[2] < -OffScale THEN o[2] + OffScale ELSE o[2])
                  /\ stc' = stc
                            + (IF o[1] > OffScale THEN 1
                               ELSE IF o[1] < -OffScale THEN -1 ELSE 0)
                            + (IF o[2] > OffScale THEN nx
                               ELSE IF o[2] < -OffScale THEN -nx ELSE 0)
                  /\ cycle' = cycle + 1
                  /\ UNCHANGED <<pathRet, pc, oob>>

\* one iteration of the loop of calcPath
CalcPathStep ==
    /\ pc = "path"
    /\ cycle < calcPath_n
    /\ \/ NearGoal
       \/ OutOfBounds
       \/ /\ ~(potarr[nearest_point(stc, dx, dy)] < COST_NEUTRAL * PotScale)
          /\ ~(stc < nx \/ stc > ns - nx)
          /\ AddPoint
          /\ IF NearHigh(stc) \/ oscillation_detected THEN FollowGrid ELSE FollowGradient
    /\ UNCHANGED <<costarr, goal, start, planner, atStart, potarr, pending, curP,
                   nextP, overP, curT, calcPath_n, cycles, setCostmap_args, prev_pot, last_path_cost, propRet, writes, dropped>>

\* out of cycles: the path is too long
CalcPathTooLong ==
    /\ pc = "path"
    /\ cycle >= calcPath_n
    /\ pathRet' = 0
    /\ pc' = "done"
    /\ UNCHANGED <<costarr, goal, start, planner, atStart, potarr, pending, curP,
                   nextP, overP, curT, gradx, grady, pathx, pathy, npath, stc, dx,
                   dy, cycle, calcPath_n, cycles, setCostmap_args, prev_pot, last_path_cost, propRet, writes, dropped, oob>>

\* getPathLen()
getPathLen == npath

\* getLastPathCost()
getLastPathCost == last_path_cost

\* the value calcNavFnDijkstra / calcNavFnAstar return
PlanFound == pathRet > 0

Next ==
    \/ setupNavFn
    \/ PropBegin
    \/ PropPass
    \/ PropExit
    \/ CalcPathBegin
    \/ CalcPathStep
    \/ CalcPathTooLong

Spec == Init /\ [][Next]_vars

\* direct calls of the propagators with a cycle budget of the caller's choice,
\* followed by calcPath, and then the same planning once more
Budgets == {ShortCycles, PlanCycles}

\* goal and start off the sealed border
InteriorCoords == {c \in Coords : ~IsBorder(Cell(c[1], c[2]))}

InitCalls ==
    /\ costarr \in CostMaps
    /\ goal \in InteriorCoords
    /\ start \in InteriorCoords
    /\ planner \in {"dijkstra", "astar"}
    /\ atStart \in BOOLEAN
    /\ (planner = "astar" => atStart)
    /\ cycles \in Budgets
    /\ Constructed

NextCalls == Next \/ Replan

SpecCalls == InitCalls /\ [][NextCalls]_vars

\* ------------------------------------------------------------ cost translation
\* mutant: an unknown cell is passable whether or not allow_unknown is set
TranslateROS_UnknownFree(v, allow_unknown) ==
    IF v < COST_OBS_ROS
    THEN Bind(COST_NEUTRAL + (COST_FACTOR_NUM * v) \div COST_FACTOR_DEN, LAMBDA w :
            IF w >= COST_OBS THEN COST_OBS - 1 ELSE w)
    ELSE IF v = COST_UNKNOWN_ROS THEN COST_OBS - 1
    ELSE COST_OBS

\* the cost setCostmap stores for the external value v of a ROS cost array;
\* int v = COST_NEUTRAL+COST_FACTOR*v truncates
TranslateROS(v, allow_unknown) ==
    IF v < COST_OBS_ROS
    THEN Bind(COST_NEUTRAL + (COST_FACTOR_NUM * v) \div COST_FACTOR_DEN, LAMBDA w :
            IF w >= COST_OBS THEN COST_OBS - 1 ELSE w)
    ELSE IF v = COST_UNKNOWN_ROS /\ allow_unknown THEN COST_OBS - 1
    ELSE COST_OBS

\* the cost setCostmap stores for the value v at row i, column j of a PGM
TranslatePGM(v, i, j) ==
    IF i < 7 \/ i > ny - 8 \/ j < 7 \/ j > nx - 8 THEN COST_OBS
    ELSE IF v < COST_OBS_ROS
    THEN Bind(COST_NEUTRAL + (COST_FACTOR_NUM * v) \div COST_FACTOR_DEN, LAMBDA w :
            IF w >= COST_OBS THEN COST_OBS - 1 ELSE w)
    ELSE IF v = COST_UNKNOWN_ROS THEN COST_OBS - 1
    ELSE COST_OBS

\* external cost grids: the values of COSTTYPE (unsigned char) in runs
ExtValues == 0 .. 255
ExtMaps == {[k \in Cells |-> (base + ValueStride * k) % 256] : base \in ExtValues}

InitCostmap ==
    /\ setCostmap_args \in [cmap : ExtMaps, isROS : BOOLEAN, allow_unknown : BOOLEAN]
    /\ costarr = [k \in Cells |-> 0]
    /\ goal = <<1, 1>>
    /\ start = <<1, 1>>
    /\ planner = "dijkstra"
    /\ atStart = TRUE
    /\ cycles = PlanCycles
    /\ potarr = [k \in Cells |-> 0]
    /\ pending = [k \in Cells |-> FALSE]
    /\ curP = << >> /\ nextP = << >> /\ overP = << >>
    /\ curT = 0
    /\ gradx = [k \in Cells |-> 0]
    /\ grady = [k \in Cells |-> 0]
    /\ pathx = << >> /\ pathy = << >>
    /\ npath = 0
    /\ stc = 0 /\ dx = 0 /\ dy = 0
    /\ cycle = 0
    /\ calcPath_n = 0
    /\ last_path_cost = 0
    /\ propRet = "none"
    /\ pathRet = -1
    /\ writes = << >>
    /\ dropped = FALSE
    /\ prev_pot = NoPot
    /\ oob = FALSE
    /\ pc = "costmap"

\* setCostmap(cmap, isROS, allow_unknown)
setCostmap ==
    /\ pc = "costmap"
    /\ costarr' = [k \in Cells |->
          IF setCostmap_args.isROS
          THEN TranslateROS(setCostmap_args.cmap[k], setCostmap_args.allow_unknown)
          ELSE TranslatePGM(setCostmap_args.cmap[k], CellY(k), CellX(k))]
    /\ pc' = "translated"
    /\ UNCHANGED <<setCostmap_args, goal, start, planner, atStart, potarr, pending,
                   curP, nextP, overP, curT, gradx, grady, pathx, pathy, npath, stc,
                   dx, dy, cycles, cycle, calcPath_n, last_path_cost, propRet, pathRet,
                   writes, dropped, prev_pot, oob>>

NextCostmap == setCostmap

SpecCostmap == InitCostmap /\ [][NextCostmap]_vars

\* ------------------------------------------------------------ one update
\* The update rule applied once, to the centre cell of a grid whose
\* potentials around that cell are drawn from PotSamples.
UpdCell == Cell(nx \div 2, ny \div 2)

PotSamples == {LowPot, LowPot + NearGap, LowPot + FarGap, POT_HIGH}

\* potential grids: samples at the cell's four neighbours, a high or a
\* reachable value at the cell itself, POT_HIGH elsewhere
UpdGrids ==
    {[k \in Cells |-> IF k = UpdCell THEN own
                      ELSE IF k = UpdCell - 1 THEN v[1]
                      ELSE IF k = UpdCell + 1 THEN v[2]
                      ELSE IF k = UpdCell - nx THEN v[3]
                      ELSE IF k = UpdCell + nx THEN v[4]
                      ELSE POT_HIGH] :
        v \in PotSamples \X PotSamples \X PotSamples \X PotSamples,
        own \in {LowPot + FarGap, POT_HIGH}}

\* cost grids with free space but for the cell and its right neighbour
UpdMaps ==
    {SealBorder(m) : m \in {c \in FewSpecialMaps :
        \A k \in Cells \ {UpdCell, UpdCell + 1} : c[k] = COST_NEUTRAL}}

InitUpdate ==
    /\ setCostmap_args = PlainArgs
    /\ costarr \in UpdMaps
    /\ goal = <<1, 1>>
    /\ start \in {<<1, 1>>, <<nx - 2, ny \div 2>>}
    /\ planner \in {"dijkstra", "astar"}
    /\ atStart = TRUE
    /\ cycles = PlanCycles
    /\ potarr \in UpdGrids
    /\ pending = [k \in Cells |-> FALSE]
    /\ curP = <<UpdCell>> /\ nextP = << >> /\ overP = << >>
    /\ curT \in {LowPot + NearGap, COST_OBS * PotScale}
    /\ gradx = [k \in Cells |-> 0]
    /\ grady = [k \in Cells |-> 0]
    /\ pathx = << >> /\ pathy = << >>
    /\ npath = 0
    /\ stc = 0 /\ dx = 0 /\ dy = 0
    /\ cycle = 0
    /\ calcPath_n = 0
    /\ last_path_cost = 0
    /\ propRet = "none"
    /\ pathRet = -1
    /\ writes = << >>
    /\ dropped = FALSE
    /\ prev_pot = NoPot
    /\ oob = FALSE
    /\ pc = "update"

\* updateCell(n) / updateCellAstar(n) for the cell at hand
UpdateCellStep ==
    /\ pc = "update"
    /\ \E r \in {IF planner = "astar" THEN updateCellAstar(PropState, curT, UpdCell)
                  ELSE updateCell(PropState, curT, UpdCell)} :
           /\ potarr' = r.pot
           /\ pending' = r.pending
           /\ curP' = r.cur
           /\ nextP' = r.next
           /\ overP' = r.over
           /\ writes' = r.writes
           /\ dropped' = r.dropped
    /\ pc' = "updated"
    /\ UNCHANGED <<costarr, goal, start, planner, atStart, curT, gradx, grady, pathx,
                   pathy, npath, stc, dx, dy, cycles, setCostmap_args, cycle, calcPath_n,
                   last_path_cost, propRet, pathRet, prev_pot, oob>>

NextUpdate == UpdateCellStep

SpecUpdate == InitUpdate /\ [][NextUpdate]_vars

\* ------------------------------------------------------------ one wave update
\* The update rule applied once to the centre cell, of any cost below
\* COST_OBS, still at POT_HIGH: its lowest neighbour on one axis is at LowPot
\* (ta), its lowest neighbour on the other axis is dc above that, with
\* 0 <= dc < hf.
WaveGrid(dc, across) ==
    [k \in Cells |-> IF k = (IF across THEN UpdCell - 1 ELSE UpdCell - nx)
                     THEN LowPot + dc
                     ELSE IF k = (IF across THEN UpdCell - nx ELSE UpdCell - 1)
                     THEN LowPot
                     ELSE POT_HIGH]

WaveMap(c) == SealBorder([k \in Cells |-> IF k = UpdCell THEN c ELSE COST_NEUTRAL])

InitWave ==
    /\ setCostmap_args = PlainArgs
    /\ \E c \in 1 .. (COST_OBS - 1) :
           /\ costarr = WaveMap(c)
           /\ \E j \in 0 .. (c - 1), across \in BOOLEAN :
                  potarr = WaveGrid(j * PotScale, across)
    /\ goal = <<1, 1>>
    /\ start = <<1, 1>>
    /\ planner \in {"dijkstra", "astar"}
    /\ atStart = TRUE
    /\ cycles = PlanCycles
    /\ pending = [k \in Cells |-> FALSE]
    /\ curP = <<UpdCell>> /\ nextP = << >> /\ overP = << >>
    /\ curT = COST_OBS * PotScale
    /\ gradx = [k \in Cells |-> 0]
    /\ grady = [k \in Cells |-> 0]
    /\ pathx = << >> /\ pathy = << >>
    /\ npath = 0
    /\ stc = 0 /\ dx = 0 /\ dy = 0
    /\ cycle = 0
    /\ calcPath_n = 0
    /\ last_path_cost = 0
    /\ propRet = "none"
    /\ pathRet = -1
    /\ writes = << >>
    /\ dropped = FALSE
    /\ prev_pot = NoPot
    /\ oob = FALSE
    /\ pc = "update"

SpecWave == InitWave /\ [][NextUpdate]_vars

\* ------------------------------------------------------------ one gradient
\* gradCell(n) called on its own, for an interior cell n (held in stc) of a
\* potential grid in which n, its four neighbours and the cell nx+1 are each
\* reached or at POT_HIGH.
GradProbe(n) == {n, n - 1, n + 1, n - nx, n + nx, nx + 1}

GradGrids(n) ==
    {[k \in Cells |-> IF k \in S THEN LowPot + NearGap * (k % 3) ELSE POT_HIGH] :
        S \in SUBSET GradProbe(n)}

InitGrad ==
    /\ setCostmap_args = PlainArgs
    /\ costarr = SealBorder([k \in Cells |-> COST_NEUTRAL])
    /\ goal = <<1, 1>>
    /\ start = <<1, 1>>
    /\ planner = "dijkstra"
    /\ atStart = TRUE
    /\ cycles = PlanCycles
    /\ stc \in Interior
    /\ potarr \in GradGrids(stc)
    /\ pending = [k \in Cells |-> FALSE]
    /\ curP = << >> /\ nextP = << >> /\ overP = << >>
    /\ curT = COST_OBS * PotScale
    /\ gradx = [k \in Cells |-> 0]
    /\ grady = [k \in Cells |-> 0]
    /\ pathx = << >> /\ pathy = << >>
    /\ npath = 0
    /\ dx = 0 /\ dy = 0
    /\ cycle = 0
    /\ calcPath_n = 0
    /\ last_path_cost = 0
    /\ propRet = "none"
    /\ pathRet = -1
    /\ writes = << >>
    /\ dropped = FALSE
    /\ prev_pot = NoPot
    /\ oob = FALSE
    /\ pc = "grad"

\* gradCell(stc)
GradCellStep ==
    /\ pc = "grad"
    /\ \E g \in {gradCell([x |-> gradx, y |-> grady], stc)} :
           /\ gradx' = g.x
           /\ grady' = g.y
    /\ pc' = "graded"
    /\ UNCHANGED <<costarr, goal, start, planner, atStart, potarr, pending, curP,
                   nextP, overP, curT, pathx, pathy, npath, stc, dx, dy, cycles,
                   setCostmap_args, cycle, calcPath_n, last_path_cost, propRet,
                   pathRet, writes, dropped, prev_pot, oob>>

NextGrad == GradCellStep

SpecGrad == InitGrad /\ [][NextGrad]_vars

\* ------------------------------------------------------------ claims
\* the planning call has been set up (setupNavFn has run)
AfterSetup == pc # "start"

\* the propagator has returned
Propagated == pc \in {"propagated", "path", "done"}

Neighbours4(k) == {m \in {k - 1, k + 1, k - nx, k + nx} : m \in Cells}

\* the cells joined to the cells of S by 4-connected chains of free cells
RECURSIVE FreeReach(_)
FreeReach(S) ==
    Bind(S \cup {m \in UNION {Neighbours4(k) : k \in S} : costarr[m] < COST_OBS},
         LAMBDA N : IF N = S THEN S ELSE FreeReach(N))

\* the number of places of the three priority buffers that hold k
Occurrences(k) ==
    Cardinality({i \in 1 .. Len(curP) : curP[i] = k})
    + Cardinality({i \in 1 .. Len(nextP) : nextP[i] = k})
    + Cardinality({i \in 1 .. Len(overP) : overP[i] = k})

\* C1: whenever calcPath returns 0, the stored path length getPathLen() is 0.
C1_FailureLeavesEmptyPath ==
    (pc = "done" /\ pathRet = 0) => getPathLen = 0

\* the start cell is enclosed by a ring of obstacles, the goal is a free
\* interior cell, calcPath has returned 0 and a path point is still stored
C1_Witness ==
    /\ pc = "done" /\ pathRet = 0 /\ npath > 0
    /\ StartCell \in RingCentres /\ costarr = SealBorder(RingMap(StartCell))
    /\ ~IsBorder(GoalCell) /\ costarr[GoalCell] < COST_OBS

\* C2: whenever calcPath returns len > 0, len is the stored npath, the last
\* path point is the goal cell, and when len > 1 the first path point is the
\* start cell with zero offset.
C2_PathEndsAtGoal ==
    (pc = "done" /\ pathRet > 0) =>
        /\ pathRet = npath
        /\ Len(pathx) = npath /\ Len(pathy) = npath
        /\ pathx[npath] = goal[1] * OffScale
        /\ pathy[npath] = goal[2] * OffScale
        /\ pathRet > 1 => /\ pathx[1] = start[1] * OffScale
                          /\ pathy[1] = start[2] * OffScale

\* a path of several points was found by gradient descent
C2_Witness ==
    pc = "done" /\ pathRet > 2 /\ start # goal /\ pathx[2] # CellX(pathx[2] \div OffScale) * OffScale

\* C3: after setupNavFn and any number of propagation iterations, every cell
\* whose cost is COST_OBS or more has potential POT_HIGH.
C3_ObstaclesStayHigh ==
    AfterSetup => \A k \in Cells : costarr[k] >= COST_OBS => potarr[k] = POT_HIGH

\* C4: when the goal cell is an obstacle after set-up, planning returns false
\* and no wavefront is propagated from the goal.
C4_ObstacleGoalNoPath ==
    (pc = "done" /\ costarr[GoalCell] >= COST_OBS) =>
        /\ ~PlanFound
        /\ \A k \in Cells \ {GoalCell} : potarr[k] = POT_HIGH

\* C5: after propagation terminates, if pot[start] < POT_HIGH then start and
\* goal are joined by a 4-connected chain of cells that all have cost below
\* COST_OBS.
C5_ReachedMeansConnected ==
    (Propagated /\ potarr[StartCell] < POT_HIGH) =>
        /\ costarr[StartCell] < COST_OBS
        /\ GoalCell \in FreeReach({StartCell})

\* C5 with the goal cell itself left out of the requirement on costs
C5_ConnectedToGoalNeighbour ==
    (Propagated /\ potarr[StartCell] < POT_HIGH /\ StartCell # GoalCell) =>
        /\ costarr[StartCell] < COST_OBS
        /\ Neighbours4(GoalCell) \cap FreeReach({StartCell}) # {}

\* C6: immediately after setupNavFn every border cell has cost COST_OBS, and
\* every cell has potential POT_HIGH except the goal cell, whose potential is 0.
C6_SetupState ==
    pc = "setup" =>
        /\ \A k \in Cells : IsBorder(k) => costarr[k] = COST_OBS
        /\ \A k \in Cells : potarr[k] = IF k = GoalCell THEN 0 ELSE POT_HIGH

\* set-up with the goal on the border
C6_Witness == pc = "setup" /\ IsBorder(GoalCell)

\* C7: right after setupNavFn and at the start of each iteration of the
\* propagation loop, pending[k] is true exactly when k occurs in the three
\* priority buffers, and then it occurs once; so the number of pending cells is
\* curPe + nextPe + overPe.
C7_PendingMatchesBuffers ==
    pc \in {"setup", "loop"} =>
        /\ \A k \in Cells : Occurrences(k) = IF pending[k] THEN 1 ELSE 0
        /\ Cardinality({k \in Cells : pending[k]}) = Len(curP) + Len(nextP) + Len(overP)

\* a later pass boundary with cells waiting in curP and in overP
C7_Witness == pc = "loop" /\ cycle > 0 /\ Len(curP) > 0 /\ Len(overP) > 0

\* the admission condition of a push of n onto buf
PushAdmits(n, buf) ==
    /\ 0 <= n /\ n < ns
    /\ ~pending[n]
    /\ costarr[n] < COST_OBS
    /\ Len(buf) < PRIORITYBUFSIZE

\* the planner's arrays and buffers in q, the record of refused pushes aside
Arrays(q) == [q EXCEPT !.dropped = dropped]

\* C8: a push appends n and sets pending[n] exactly when 0 <= n < ns, n is not
\* pending, cost[n] < COST_OBS and the buffer's count is below PRIORITYBUFSIZE;
\* otherwise it changes nothing.  So no count ever exceeds PRIORITYBUFSIZE.
C8_PushAdmission ==
    /\ Len(curP) <= PRIORITYBUFSIZE
    /\ Len(nextP) <= PRIORITYBUFSIZE
    /\ Len(overP) <= PRIORITYBUFSIZE
    /\ AfterSetup =>
        \E q \in {PropState} :
          \A n \in (-nx - 1) .. (ns + nx) :
            /\ Arrays(push_cur(q, n)) =
                 IF PushAdmits(n, curP)
                 THEN [q EXCEPT !.cur = Append(curP, n), !.pending[n] = TRUE]
                 ELSE q
            /\ Arrays(push_next(q, n)) =
                 IF PushAdmits(n, nextP)
                 THEN [q EXCEPT !.next = Append(nextP, n), !.pending[n] = TRUE]
                 ELSE q
            /\ Arrays(push_over(q, n)) =
                 IF PushAdmits(n, overP)
                 THEN [q EXCEPT !.over = Append(overP, n), !.pending[n] = TRUE]
                 ELSE q

\* a push was dropped for capacity: the goal has a free neighbour that is not
\* pending although setupNavFn pushed all four
C8_Witness ==
    /\ pc = "setup"
    /\ Len(curP) = PRIORITYBUFSIZE
    /\ \E n \in Neighbours4(GoalCell) : costarr[n] < COST_OBS /\ ~pending[n]

\* every potential written in the last pass is lower than the one it replaced
WritesDecrease == \A i \in 1 .. Len(writes) : writes[i][3] < writes[i][2]

\* the value of pot[k] after the writes of the pass just run
LastWrite(k) ==
    Bind({i \in 1 .. Len(writes') : writes'[i][1] = k}, LAMBDA W :
        IF W = {} THEN potarr[k]
        ELSE writes'[CHOOSE i \in W : \A j \in W : j <= i][3])

\* C9: during propagation every value written to pot[k] is lower than the one
\* it replaces, and the update rule's writes are the only changes of pot.
C9_PotentialDecreases ==
    [][pc = "loop" =>
        /\ WritesDecrease'
        /\ \A k \in Cells : potarr'[k] = LastWrite(k) /\ potarr'[k] <= potarr[k]]_vars

\* a cell that already had a finite potential was given a lower one
C9_Witness ==
    pc = "loop" /\ \E i \in 1 .. Len(writes) : writes[i][2] < POT_HIGH

\* the permutations of buf
Orders(buf) ==
    {[i \in 1 .. Len(buf) |-> buf[f[i]]] :
        f \in {g \in [1 .. Len(buf) -> 1 .. Len(buf)] :
                 \A i, j \in 1 .. Len(buf) : i # j => g[i] # g[j]}}

\* the propagation loop is about to run a pass
AtPass == pc = "loop" /\ cycle < cycles /\ ~(Len(curP) = 0 /\ Len(nextP) = 0)

\* the potential grid when the loop, entered with state r and counter c, ends
RECURSIVE RunLoop(_, _)
RunLoop(r0, c) ==
    Bind(r0, LAMBDA r :
      IF c >= cycles \/ (Len(r.cur) = 0 /\ Len(r.next) = 0) THEN r.pot
      ELSE Bind(Pass(r, r.curT, r.cur, planner = "astar"), LAMBDA r1 :
             IF HitStart(r1.pot) THEN r1.pot ELSE RunLoop(r1, c + 1)))

\* the potential grid when propagation ends, the pass at hand run in order o
FinalPot(o) ==
    Bind(Pass(PropState, curT, o, planner = "astar"), LAMBDA r1 :
        IF HitStart(r1.pot) THEN r1.pot ELSE RunLoop(r1, cycle + 1))

\* C10: from a pass boundary, processing the cells of curP in any order gives
\* the same potential grid at the end of the pass and at the end of propagation.
C10_OrderIrrelevant ==
    AtPass => \A o \in Orders(curP) :
        /\ Pass(PropState, curT, o, planner = "astar").pot
             = Pass(PropState, curT, curP, planner = "astar").pot
        /\ FinalPot(o) = FinalPot(curP)

\* no two cells of buf are 4-neighbours of each other
NoAdjacent(buf) ==
    \A i, j \in 1 .. Len(buf) : buf[j] \notin Neighbours4(buf[i])

\* C10, amended: from a pass boundary at which no two cells of curP are
\* 4-neighbours of each other, processing the cells of curP in any order gives
\* the same potential grid at the end of the pass.
C10_IndependentCells ==
    (AtPass /\ NoAdjacent(curP)) => \A o \in Orders(curP) :
        Pass(PropState, curT, o, planner = "astar").pot
            = Pass(PropState, curT, curP, planner = "astar").pot

\* a pass with several cells to process, none next to another, all of them
\* given a new potential
C10_Witness ==
    /\ AtPass /\ cycle > 0 /\ Len(curP) >= 2 /\ NoAdjacent(curP)
    /\ Len(Pass(PropState, curT, curP, planner = "astar").writes) = Len(curP)

\* the planning call was repeated and its propagation has ended
SecondRunPropagated == pc = "propagated" /\ prev_pot # NoPot

\* C11: setupNavFn and propagation run a second time on the same cost grid,
\* goal, start and cycle budget, from whatever the first run left behind, give
\* the potential grid of the first run, for both propagators.
C11_ReplanSamePotential ==
    SecondRunPropagated => potarr = prev_pot

\* the second run has ended as the first did, with cells still waiting in
\* the priority buffers and pending, and cells other than the goal reached
C11_Witness ==
    /\ SecondRunPropagated
    /\ Len(curP) + Len(overP) > 0
    /\ \E k \in Cells \ {GoalCell} : potarr[k] < POT_HIGH

\* the state with the potentials of cells a and b exchanged
SwapPot(q, a, b) == [q EXCEPT !.pot[a] = q.pot[b], !.pot[b] = q.pot[a]]

\* the potential of the cell after the planner's update rule has run on state q
UpdatedPot(q) ==
    IF planner = "astar" THEN updateCellAstar(q, curT, UpdCell).pot[UpdCell]
    ELSE updateCell(q, curT, UpdCell).pot[UpdCell]

\* C12: the potential the update rule gives a cell is the same when the left
\* and right neighbour potentials are exchanged, and when the up and down
\* neighbour potentials are exchanged.
C12_UpdateSymmetric ==
    pc = "update" =>
        /\ UpdatedPot(SwapPot(PropState, UpdCell - 1, UpdCell + 1)) = UpdatedPot(PropState)
        /\ UpdatedPot(SwapPot(PropState, UpdCell - nx, UpdCell + nx)) = UpdatedPot(PropState)

\* the cell was given a new potential by the two-neighbour interpolation, from
\* neighbours that differ left from right and up from down
C12_Witness ==
    /\ pc = "updated"
    /\ Len(writes) = 1
    /\ potarr[UpdCell - 1] < potarr[UpdCell + 1]
    /\ potarr[UpdCell + nx] < potarr[UpdCell - nx]
    /\ potarr[UpdCell - nx] < POT_HIGH
    /\ potarr[UpdCell] < potarr[UpdCell - 1] + costarr[UpdCell] * PotScale

\* C13: propNavFnDijkstra returns true exactly when pot[start] < POT_HIGH on
\* return, for every cycle budget and both values of atStart.
C13_DijkstraReturnsReached ==
    (pc = "propagated" /\ planner = "dijkstra") =>
        propRet = (potarr[StartCell] < POT_HIGH)

\* C14: after propNavFnAstar returns, getLastPathCost() is pot[start] as it
\* stands at termination, and propNavFnAstar returned true exactly when that
\* value is below POT_HIGH.
C14_AstarRecordsStartPotential ==
    (Propagated /\ planner = "astar") =>
        /\ getLastPathCost = potarr[StartCell]
        /\ propRet = (getLastPathCost < POT_HIGH)

\* propNavFnAstar has left its loop by a break on empty priority blocks,
\* before the budget ran out, without reaching a start cell that is free
C14_Witness ==
    /\ pc = "propagated" /\ planner = "astar"
    /\ cycle < cycles
    /\ costarr[StartCell] < COST_OBS
    /\ getLastPathCost = POT_HIGH

\* C15: when start and goal are the same cell, calcPath returns 1 on its first
\* iteration through the near-goal check, and the path is the single point
\* goal, before the border check or any neighbour read, wherever the cell lies.
C15_StartIsGoal ==
    (pc = "done" /\ start = goal) =>
        /\ pathRet = 1
        /\ getPathLen = 1
        /\ pathx = <<goal[1] * OffScale>>
        /\ pathy = <<goal[2] * OffScale>>
        /\ cycle = 0
        /\ ~oob

\* the common cell of start and goal lies in the first row of the grid, where
\* the border check would end the path
C15_Witness ==
    pc = "done" /\ start = goal /\ GoalCell < nx

\* start and goal are free cells joined by a 4-connected chain of free cells
Connected ==
    /\ costarr[StartCell] < COST_OBS
    /\ costarr[GoalCell] < COST_OBS
    /\ GoalCell \in FreeReach({StartCell})

\* C16: with a priority-buffer capacity so small that pushes are dropped, and
\* a cycle budget that does not run out, propagation still gives a finite
\* potential to a start cell that is 4-connected to the goal through
\* non-obstacle cells.
C16_DropsDoNotStopWave ==
    (pc = "propagated" /\ cycle < cycles /\ Connected) =>
        potarr[StartCell] < POT_HIGH

\* a ROS cost array has been translated
TranslatedROS == pc = "translated" /\ setCostmap_args.isROS

\* COST_NEUTRAL + COST_FACTOR*v clamped to 0 .. COST_OBS-1, in 1/COST_FACTOR_DEN
ClampedScaled(v) ==
    Max2(0, Min2((COST_OBS - 1) * COST_FACTOR_DEN,
                 COST_NEUTRAL * COST_FACTOR_DEN + COST_FACTOR_NUM * v))

\* C17: setCostmap in ROS mode stores, for the external value v: the integer
\* part of clamp(COST_NEUTRAL + COST_FACTOR*v, 0, COST_OBS-1) when
\* v < COST_OBS_ROS; COST_OBS-1 when v is 255 and allow_unknown is set; COST_OBS
\* otherwise.  So a passable cell has cost in COST_NEUTRAL .. COST_OBS-1, and an
\* unknown cell is impassable when allow_unknown is false.
C17_CostTranslation ==
    TranslatedROS => \A k \in Cells :
        /\ Bind(setCostmap_args.cmap[k], LAMBDA v :
             IF v < COST_OBS_ROS
             THEN /\ costarr[k] * COST_FACTOR_DEN <= ClampedScaled(v)
                  /\ ClampedScaled(v) < (costarr[k] + 1) * COST_FACTOR_DEN
             ELSE IF v = COST_UNKNOWN_ROS /\ setCostmap_args.allow_unknown
             THEN costarr[k] = COST_OBS - 1
             ELSE costarr[k] = COST_OBS)
        /\ costarr[k] < COST_OBS =>
               COST_NEUTRAL <= costarr[k] /\ costarr[k] <= COST_OBS - 1

\* a ROS cost array with an unknown cell, an inscribed and a lethal obstacle
\* and the highest free value was translated with allow_unknown false
C17_Witness ==
    /\ TranslatedROS
    /\ ~setCostmap_args.allow_unknown
    /\ \A v \in {COST_OBS_ROS - 1, COST_OBS_ROS, COST_OBS, COST_UNKNOWN_ROS} :
          \E k \in Cells : setCostmap_args.cmap[k] = v

\* the state in which the cells of curP are processed: their flags are reset
PassState == ClearPending(PropState, curP)

\* C18: from the same grid state and for the same cell n, updateCellAstar
\* commits the same pot[n] as updateCell and admits the same neighbours; only
\* the bucket, nextP or overP, may differ.
C18_AstarDiffersInBucketOnly ==
    AtPass => \A i \in 1 .. Len(curP) :
        Bind(<<updateCell(PassState, curT, curP[i]),
               updateCellAstar(PassState, curT, curP[i])>>, LAMBDA r :
            /\ r[1].pot = r[2].pot
            /\ r[1].pending = r[2].pending)

\* C19: at every pass boundary of the propagation loop, every cell held in
\* overP has a stored potential above curT, and every cell held in curP has a
\* stored potential of at most curT.
C19_BucketsBracketThreshold ==
    pc = "loop" =>
        /\ \A i \in 1 .. Len(overP) : potarr[overP[i]] > curT
        /\ \A i \in 1 .. Len(curP) : potarr[curP[i]] <= curT

\* the buffers after the cells of curP have been processed, before the swap
Processed == ProcessBuffer(PassState, curT, curP, planner = "astar")

\* C20: in each iteration of the propagation loop, after curP and nextP are
\* swapped and nextPe is zeroed, curT is raised by exactly priInc and overP is
\* promoted to curP, with overP left empty, if and only if the new curP is
\* empty; otherwise curT and overP are unchanged.  curT never decreases
\* during a propagation.
C20_ThresholdRaisedIffDrained ==
    [][/\ AtPass =>
            \E q \in {Processed} :
               /\ nextP' = << >>
               /\ IF q.next = << >>
                  THEN curT' = curT + priInc /\ curP' = q.over /\ overP' = << >>
                  ELSE curT' = curT /\ curP' = q.next /\ overP' = q.over
       /\ pc = "loop" => curT' >= curT]_vars

\* Dijkstra has raised the threshold once and promoted a non-empty overP
C20_Witness ==
    /\ pc = "loop"
    /\ planner = "dijkstra"
    /\ curT = InitialThreshold + priInc
    /\ Len(curP) > 0

\* the loop of calcPath is at the top of an iteration and the near-goal check
\* does not succeed
PastNearGoal ==
    /\ pc = "path"
    /\ cycle < calcPath_n
    /\ ~(potarr[nearest_point(stc, dx, dy)] < COST_NEUTRAL * PotScale)

\* C21: whenever the current cell stc of the path tracer lies in the top row
\* or the bottom row of the grid and the near-goal check did not succeed,
\* calcPath returns 0; it never goes on to add a point and read the
\* 8-neighbourhood of a cell of row 0 or row ny-1.
C21_BorderRowsFail ==
    [][(PastNearGoal /\ CellY(stc) \in {0, ny - 1}) =>
           (pathRet' = 0 /\ pc' = "done" /\ npath' = npath /\ oob' = oob)]_vars

\* the iteration of calcPath at stc takes the grid-walking fallback, and the
\* eight neighbours of stc are cells of the grid
GridFallback ==
    /\ PastNearGoal
    /\ ~(stc < nx \/ stc > ns - nx)
    /\ \A i \in 1 .. 8 : EightNeighbours(stc)[i] \in Cells
    /\ NearHigh(stc) \/ oscillation_detected

\* C22: in the grid-walking fallback of calcPath the next cell stc is the
\* cell with the minimum potential among the 8 neighbours of the current
\* cell, and the sub-cell offset (dx, dy) is reset to (0, 0).
C22_FallbackTakesLowestNeighbour ==
    [][GridFallback =>
           /\ \E i \in 1 .. 8 : stc' = EightNeighbours(stc)[i]
           /\ \A i \in 1 .. 8 : potarr[stc'] <= potarr[EightNeighbours(stc)[i]]
           /\ dx' = 0
           /\ dy' = 0]_vars

\* the unit vector along <<a, b>>, in 1/OffScale; zero for the zero vector
UnitVector(a, b) ==
    IF Hypot(a, b) > 0
    THEN <<Quot(a * OffScale, Hypot(a, b)), Quot(b * OffScale, Hypot(a, b))>>
    ELSE <<0, 0>>

\* the obstacle-branch decision chosen alike on both axes, from the
\* potentials of n's own neighbours
SymmetricObstacleGrad(n) ==
    <<IF potarr[n - 1] < POT_HIGH THEN -COST_OBS * PotScale
      ELSE IF potarr[n + 1] < POT_HIGH THEN COST_OBS * PotScale ELSE 0,
      IF potarr[n - nx] < POT_HIGH THEN -COST_OBS * PotScale
      ELSE IF potarr[n + nx] < POT_HIGH THEN COST_OBS * PotScale ELSE 0>>

\* C23: in gradCell's obstacle branch (pot[n] >= POT_HIGH, n not in the top
\* or bottom row) the y component is chosen like the x component: dy is
\* -COST_OBS when the upper neighbour n-nx is reachable, else +COST_OBS when
\* the lower neighbour n+nx is reachable, else 0; the decision depends only
\* on the potentials of n's own neighbours.
C23_ObstacleGradientSymmetric ==
    (pc = "graded" /\ potarr[stc] >= POT_HIGH) =>
        \E d \in {SymmetricObstacleGrad(stc)} :
            <<gradx[stc], grady[stc]>> = UnitVector(d[1], d[2])

\* Dijkstra propagation without the start test has ended with curP and nextP
\* empty, and no push was refused for capacity
ExhaustedNoDrops ==
    /\ pc = "propagated"
    /\ planner = "dijkstra"
    /\ ~atStart
    /\ ~dropped
    /\ Len(curP) = 0
    /\ Len(nextP) = 0

\* the free cells joined to a neighbour of the goal by chains of free cells
GoalBasin == FreeReach({m \in Neighbours4(GoalCell) : costarr[m] < COST_OBS})

\* C24: when no push is dropped for capacity and Dijkstra propagation
\* (atStart false) ends because curP and nextP are empty, no cell is left in
\* overP and every cell with cost below COST_OBS that is 4-connected through
\* non-obstacle cells to a neighbour of the goal has a finite potential; a
\* start cell left at POT_HIGH is an obstacle or disconnected from the goal.
C24_ExhaustionIsComplete ==
    ExhaustedNoDrops =>
        /\ Len(overP) = 0
        /\ \A k \in GoalBasin : potarr[k] < POT_HIGH
        /\ potarr[StartCell] >= POT_HIGH =>
               (costarr[StartCell] >= COST_OBS \/ StartCell \notin GoalBasin)

\* such a run has filled a basin of at least four cells, the start among them
C24_Witness ==
    /\ ExhaustedNoDrops
    /\ Cardinality(GoalBasin) >= 4
    /\ StartCell \in GoalBasin
    /\ StartCell # GoalCell

\* the cells the propagation loop will hand to the update rule
Queued ==
    {curP[i] : i \in 1 .. Len(curP)} \cup {nextP[i] : i \in 1 .. Len(nextP)}
    \cup {overP[i] : i \in 1 .. Len(overP)}

\* C25: every cell index handed to updateCell / updateCellAstar during
\* propagation is an interior cell (not in row 0, row ny-1, column 0 or column
\* nx-1), so the reads of pot and cost at n-1, n+1, n-nx and n+nx stay within
\* [0, ns); this holds for every goal position inside the grid, including
\* goals on the border.
C25_UpdatedCellsInterior ==
    pc \in {"setup", "loop"} =>
        \A n \in Queued :
            /\ n \in Cells
            /\ ~IsBorder(n)
            /\ {n - 1, n + 1, n - nx, n + nx} \subseteq Cells

\* a pass is about to update a cell although the goal lies on the border
C25_Witness ==
    /\ AtPass
    /\ IsBorder(GoalCell)
    /\ Len(curP) > 0
    /\ cycle > 0

\* C26: for every start cell inside the grid and every potential field, every
\* index at which calcPath reads the potential grid (stc, stc+-1, stc+-nx,
\* stc+-nx+-1) lies in [0, ns), and every write to the path buffer is at an
\* index below n.
C26_TracerMemorySafe ==
    pc \in {"path", "done"} =>
        /\ ~oob
        /\ Len(pathx) <= calcPath_n
        /\ Len(pathy) <= calcPath_n

\* C27: the two-neighbour interpolated update never yields more than the
\* one-neighbour update: for every hf = cost[n] in 1 .. COST_OBS-1 and every
\* dc with 0 <= dc < hf, the new potential ta + hf*(-0.2301*d*d + 0.5307*d +
\* 0.7040), d = dc/hf, is at most ta + hf.
C27_InterpolationBelowOneNeighbour ==
    pc = "updated" => potarr[UpdCell] <= LowPot + costarr[UpdCell] * PotScale

=============================================================================
